---- MODULE Spec2Model ----
(***************************************************************************)
(* Model of the stochastic-sampling simulator: the particle algebra        *)
(* (periodic projection), the distribution sampler, the k-sampling helper  *)
(* and the timestep driver with its per-worker PRNG pool.                  *)
(*                                                                         *)
(* Real numbers are modelled on an integer lattice: lengths are integers,  *)
(* a full turn is TWOPI lattice units, and quotients that the code keeps   *)
(* as floating point values are exact rationals [n, d].                    *)
(***************************************************************************)
EXTENDS Integers, Sequences, FiniteSets, TLC

\* ------------------------------------------------------------------------
\* Bounds of the model
\* ------------------------------------------------------------------------
MaxSteps == 2
MaxWorkers == 2
MaxParticles == 3
MaxCoord == 5
MaxAngle == 9
MaxGrid == 6
MaxBox == 3

\* ------------------------------------------------------------------------
\* Lattice constants
\* ------------------------------------------------------------------------
PI == 4
TWOPI == 2 * PI
PIHALF == PI \div 2

\* ------------------------------------------------------------------------
\* Exact rationals standing for the code's floating point quotients
\* ------------------------------------------------------------------------
Abs(i) == IF i < 0 THEN 0 - i ELSE i

RECURSIVE GCD(_, _)
GCD(a, b) == IF b = 0 THEN a ELSE GCD(b, a % b)

Rat(n, d) ==
    LET g == GCD(Abs(n), Abs(d))
        s == IF d < 0 THEN 0 - 1 ELSE 1
    IN  [n |-> (s * n) \div g, d |-> (s * d) \div g]

RatInt(i) == [n |-> i, d |-> 1]
RatAdd(a, b) == Rat(a.n * b.d + b.n * a.d, a.d * b.d)
RatMul(a, b) == Rat(a.n * b.n, a.d * b.d)
RatDiv(a, b) == Rat(a.n * b.d, a.d * b.n)
\* floor of a rational with positive denominator
RatFloor(a) == a.n \div a.d

\* sum of the entries 0..n-1 of f
RECURSIVE SumFn(_, _)
SumFn(f, n) == IF n = 0 THEN RatInt(0) ELSE RatAdd(SumFn(f, n - 1), f[n - 1])

\* ------------------------------------------------------------------------
\* particle.rs: periodic projection
\* ------------------------------------------------------------------------
\* the remainder of the truncated division, as the `%` of the machine
TruncRem(f, m) == IF f >= 0 THEN f % m ELSE 0 - ((0 - f) % m)

modulo_rem(f, m) == TruncRem(f, m)

\* f.mod_euc(m)
modulo(f, m) ==
    LET r == TruncRem(f, m)
    IN  IF r < 0 THEN r + Abs(m) ELSE r

ang_pbc_phi_kept(phi, theta) ==
    LET th == modulo(theta, TWOPI)
    IN  IF th > PI
        THEN [phi |-> modulo(phi, TWOPI), theta |-> TWOPI - th]
        ELSE [phi |-> modulo(phi, TWOPI), theta |-> th]

ang_pbc(phi, theta) ==
    LET th == modulo(theta, TWOPI)
    IN  IF th > PI
        THEN [phi |-> modulo(phi + PI, TWOPI), theta |-> TWOPI - th]
        ELSE [phi |-> modulo(phi, TWOPI), theta |-> th]

Position_new(x, y, z, bs) ==
    [x |-> modulo(x, bs.x), y |-> modulo(y, bs.y), z |-> modulo(z, bs.z)]

Position_pbc(self, bs) ==
    [x |-> modulo(self.x, bs.x), y |-> modulo(self.y, bs.y), z |-> modulo(self.z, bs.z)]

Orientation_new(phi, theta) == ang_pbc(phi, theta)

Orientation_pbc(self) == ang_pbc(self.phi, self.theta)

Particle_pbc(self, bs) ==
    [position |-> Position_pbc(self.position, bs),
     orientation |-> Orientation_pbc(self.orientation)]

Particle_new(x, y, z, phi, theta, box_size) ==
    Particle_pbc([position |-> Position_new(x, y, z, box_size),
                  orientation |-> Orientation_new(phi, theta)], box_size)

\* ------------------------------------------------------------------------
\* fft_helper.rs: k-sampling in FFTW standard order
\* ------------------------------------------------------------------------
k_axis_nyquist_positive(gs, bs) ==
    LET a == gs \div 2
        b == gs \div 2 + 1
        step == Rat(TWOPI, bs)
        values == [j \in 0..(a + b - 1) |-> RatMul(RatInt(j - a), step)]
    IN  [i \in 0..(gs - 1) |-> IF i < b THEN values[a + i] ELSE values[i - b]]

\* one axis of get_k_sampling; entry i is k[i] as an exact rational
k_axis(gs, bs) ==
    LET a == gs \div 2
        b == IF gs % 2 = 0 THEN gs \div 2 ELSE gs \div 2 + 1
        step == Rat(TWOPI, bs)
        values == [j \in 0..(a + b - 1) |-> RatMul(RatInt(j - a), step)]
    IN  [i \in 0..(gs - 1) |-> IF i < b THEN values[a + i] ELSE values[i - b]]

get_k_sampling(grid_size, box_size) ==
    <<k_axis(grid_size.x, box_size.x), k_axis(grid_size.y, box_size.y)>>

\* ------------------------------------------------------------------------
\* distribution.rs: the sampled distribution function
\* ------------------------------------------------------------------------
Len0(v) == Cardinality(DOMAIN v)

Cells(grid) ==
    (0..(grid.x - 1)) \X (0..(grid.y - 1)) \X (0..(grid.z - 1))
        \X (0..(grid.phi - 1)) \X (0..(grid.theta - 1))

SpatialCells(grid) == (0..(grid.x - 1)) \X (0..(grid.y - 1)) \X (0..(grid.z - 1))

GridWidth_new(grid, boxdim) ==
    [x |-> Rat(boxdim.x, grid.x), y |-> Rat(boxdim.y, grid.y), z |-> Rat(boxdim.z, grid.z),
     phi |-> Rat(TWOPI, grid.phi), theta |-> Rat(PI, grid.theta)]

Distribution_new(grid, boxdim) ==
    [dist |-> [c \in Cells(grid) |-> RatInt(0)],
     dim |-> grid,
     grid_width |-> GridWidth_new(grid, boxdim)]

\* (coordinate / width).floor()
floor_div(coord, width) == RatFloor(RatDiv(RatInt(coord), width))

\* index along the polar axis of the five-dimensional grid
theta_to_grid(self, p) == floor_div(p.orientation.theta, self.grid_width.theta)

get_cell_index(p, grid_width) ==
    <<floor_div(p.position.x, grid_width.x),
      floor_div(p.position.y, grid_width.y),
      floor_div(p.position.z, grid_width.z)>>

coord_to_grid(self, p) ==
    LET gx == floor_div(p.position.x, self.grid_width.x)
        gy == floor_div(p.position.y, self.grid_width.y)
        gz == get_cell_index(p, self.grid_width)[3]
        ga == floor_div(p.orientation.phi, self.grid_width.phi)
    IN  <<gx, gy, gz, ga, theta_to_grid(self, p)>>

\* the checked index operation `self.dist[c]` succeeds for every particle
index_in_bounds(self, particles) ==
    \A i \in DOMAIN particles : coord_to_grid(self, particles[i]) \in DOMAIN self.dist

RECURSIVE build_histogram(_, _, _, _)
build_histogram(self, dist, particles, i) ==
    \* the loop ends with the last particle, or with the panic of an index out of bounds
    IF i >= Len0(particles) \/ coord_to_grid(self, particles[i]) \notin DOMAIN dist THEN dist
    ELSE LET c == coord_to_grid(self, particles[i])
         IN  build_histogram(self, [dist EXCEPT ![c] = RatAdd(@, RatInt(1))], particles, i + 1)

histogram_from_accumulate(self, particles) ==
    [self EXCEPT !.dist = build_histogram(self, self.dist, particles, 0)]

histogram_from(self, particles) ==
    LET zeroed == [c \in DOMAIN self.dist |-> RatInt(0)]
    IN  [self EXCEPT !.dist = build_histogram(self, zeroed, particles, 0)]

cell_volume(gw) == RatMul(RatMul(RatMul(gw.x, gw.y), RatMul(gw.z, gw.phi)), gw.theta)

sample_from(self, particles) ==
    LET h == histogram_from(self, particles)
        vol == cell_volume(self.grid_width)
    IN  [h EXCEPT !.dist = [c \in DOMAIN h.dist |-> RatDiv(h.dist[c], vol)]]

\* `dist *= f`
scale_dist(self, f) == [self EXCEPT !.dist = [c \in DOMAIN self.dist |-> RatMul(self.dist[c], f)]]

\* sum over all cells, axis by axis
dist_sum(self) ==
    LET g == self.dim
    IN  SumFn([ix \in 0..(g.x - 1) |->
          SumFn([iy \in 0..(g.y - 1) |->
            SumFn([iz \in 0..(g.z - 1) |->
              SumFn([ip \in 0..(g.phi - 1) |->
                SumFn([it \in 0..(g.theta - 1) |-> self.dist[<<ix, iy, iz, ip, it>>]],
                      g.theta)], g.phi)], g.z)], g.y)], g.x)

\* ------------------------------------------------------------------------
\* The per-worker pseudo random number generators and the random vectors
\* ------------------------------------------------------------------------
\* SeedableRng::seed_from_u64: the state is a function of the seed alone
seed_from_u64(seed) == [state |-> (7 * seed + 1) % 16]

\* one step of the generator; the value drawn is its new state
rng_next(r) == [state |-> (5 * r.state + 3) % 16]

sample_normal(r) == (r.state % 3) - 1
sample_uniform(r) == r.state

rayleigh_pdf(sigma, x) == sigma * (x \div 6)

ZeroVector == [x |-> 0, y |-> 0, z |-> 0, axis_angle |-> 0, rotate_angle |-> 0]

\* one RandomVector: five draws in sequence; returns the vector and the
\* generator after the draws
draw_vector(r0, dr) ==
    LET r1 == rng_next(r0)
        r2 == rng_next(r1)
        r3 == rng_next(r2)
        r4 == rng_next(r3)
        r5 == rng_next(r4)
    IN  [vec |-> [x |-> sample_normal(r1), y |-> sample_normal(r2), z |-> sample_normal(r3),
                  axis_angle |-> (TWOPI * sample_uniform(r4)) \div 16,
                  rotate_angle |-> rayleigh_pdf(dr, sample_uniform(r5))],
         rng |-> r5]

chunk_size_ceil(len, nrng) == (len + nrng - 1) \div nrng

chunk_size(len, nrng) == len \div nrng + 1

\* par_chunks_mut(chunksize): chunk k holds the slots k*size .. min((k+1)*size, len) - 1
num_chunks_whole(len, size) == len \div size
num_chunks(len, size) == (len + size - 1) \div size
chunk_slots_overlapping(len, size, k) ==
    {j \in 0..(len - 1) : k * size - 1 <= j /\ j < (k + 1) * size}

chunk_slots(len, size, k) ==
    {j \in 0..(len - 1) : k * size <= j /\ j < (k + 1) * size}

\* zip(chunks, rng): the pairs that exist
zipped_pairs(len, size, nrng) ==
    LET nc == num_chunks(len, size)
    IN  0..((IF nc < nrng THEN nc ELSE nrng) - 1)

\* the closure of the for_each: fill the slots of one chunk, in order, from one
\* generator; returns the samples and the generator after the chunk
RECURSIVE fill_chunk(_, _, _, _, _)
fill_chunk(samples, r, dr, j, last) ==
    IF j > last THEN [samples |-> samples, rng |-> r]
    ELSE LET d == draw_vector(r, dr)
         IN  fill_chunk([samples EXCEPT ![j] = d.vec], d.rng, dr, j + 1, last)

\* ------------------------------------------------------------------------
\* The mean fields and the Langevin step on the lattice
\* ------------------------------------------------------------------------
CosL(a) == <<1, 1, 0, 0 - 1, 0 - 1, 0 - 1, 0, 1>>[(a % TWOPI) + 1]
SinL(a) == CosL(a - PIHALF)

AngularCells(grid) == (0..(grid.phi - 1)) \X (0..(grid.theta - 1))

\* sum of f over the two angular axes
angular_sum(f, grid) ==
    SumFn([ip \in 0..(grid.phi - 1) |->
             SumFn([it \in 0..(grid.theta - 1) |-> f[<<ip, it>>]], grid.theta)], grid.phi)

\* marginal density: sum over the angular axes times dphi * dtheta
density(self, grid) ==
    [c \in SpatialCells(grid) |->
        RatMul(angular_sum([a \in AngularCells(grid) |->
                               self.dist[<<c[1], c[2], c[3], a[1], a[2]>>]], grid),
               RatMul(self.grid_width.phi, self.grid_width.theta))]

\* angle at the centre of angular cell i of width w
cell_centre(i, w) == RatFloor(RatMul(Rat(2 * i + 1, 2), w))

\* polarization of a spatial cell: first angular moment of the distribution
polarization(self, grid, c) ==
    LET A == AngularCells(grid)
        w == RatMul(self.grid_width.phi, self.grid_width.theta)
        ph(a) == cell_centre(a[1], self.grid_width.phi)
        th(a) == cell_centre(a[2], self.grid_width.theta)
        rho(a) == self.dist[<<c[1], c[2], c[3], a[1], a[2]>>]
    IN  [x |-> RatFloor(RatMul(w, angular_sum([a \in A |-> RatMul(rho(a), RatInt(SinL(th(a)) * CosL(ph(a))))], grid))),
         y |-> RatFloor(RatMul(w, angular_sum([a \in A |-> RatMul(rho(a), RatInt(SinL(th(a)) * SinL(ph(a))))], grid))),
         z |-> RatFloor(RatMul(w, angular_sum([a \in A |-> RatMul(rho(a), RatInt(CosL(th(a))))], grid)))]

\* magnetic solver: the dipole field of the polarization of the neighbouring
\* cell along x (a periodic convolution with a one-cell kernel)
mean_magnetic_field(self, grid) ==
    [c \in SpatialCells(grid) |-> polarization(self, grid, <<(c[1] + 1) % grid.x, c[2], c[3]>>)]

\* spectral solver: a zero-mean flow, the periodic central difference of the
\* marginal density
mean_flow_field(self, grid) ==
    LET d == density(self, grid)
        n(c) == RatFloor(d[c])
    IN  [c \in SpatialCells(grid) |->
            [x |-> n(<<(c[1] + 1) % grid.x, c[2], c[3]>>) - n(<<(c[1] + grid.x - 1) % grid.x, c[2], c[3]>>),
             y |-> n(<<c[1], (c[2] + 1) % grid.y, c[3]>>) - n(<<c[1], (c[2] + grid.y - 1) % grid.y, c[3]>>),
             z |-> n(<<c[1], c[2], (c[3] + 1) % grid.z>>) - n(<<c[1], c[2], (c[3] + grid.z - 1) % grid.z>>)]]

\* LangevinBuilder: modifiers, step, diffusion; the particle before finalize
langevin_modifiers(p, r, flow, b, diff, param, dt) ==
    LET o == p.orientation
        nx == SinL(o.theta) * CosL(o.phi)
        ny == SinL(o.theta) * SinL(o.phi)
        nz == CosL(o.theta)
        \* self propulsion and convection
        vx == nx + flow.x
        vy == ny + flow.y
        vz == nz + flow.z
        \* alignment in the external field and rotation in the dipole field
        dtheta == 0 - param.magnetic_reorientation * SinL(o.theta)
        dphi == param.magnetic_dipole_dipole * (b.y * CosL(o.phi) - b.x * SinL(o.phi))
    IN  [position |-> [x |-> p.position.x + vx * dt + diff * r.x,
                       y |-> p.position.y + vy * dt + diff * r.y,
                       z |-> p.position.z + vz * dt + diff * r.z],
         orientation |-> [phi |-> o.phi + dphi * dt + r.rotate_angle * SinL(r.axis_angle),
                          theta |-> o.theta + dtheta * dt + r.rotate_angle * CosL(r.axis_angle)]]

\* .finalize(&box_size): periodic projection of the stepped particle
finalize(p, box_size) == Particle_pbc(p, box_size)

\* ------------------------------------------------------------------------
\* Settings and inputs
\* ------------------------------------------------------------------------
Sims == {1, 2}

Seeds == {1, 2}
BoxSizes == {[x |-> 4, y |-> 3, z |-> 2]}
GridSize(nz) == [x |-> 2, y |-> 2, z |-> nz, phi |-> 2, theta |-> 2]
\* a grid with an odd number of cells along x
OddGrid == [GridSize(2) EXCEPT !.x = 3]

\* grids paired with the quasi2d feature
Builds == {[grid_size |-> GridSize(2), quasi2d |-> FALSE],
           [grid_size |-> GridSize(1), quasi2d |-> TRUE],
           [grid_size |-> GridSize(2), quasi2d |-> TRUE],
           [grid_size |-> OddGrid, quasi2d |-> FALSE]}

Parameters ==
    [diffusion |-> [translational |-> 1, rotational |-> 1],
     volume_exclusion |-> 1,
     magnetic_reorientation |-> 1,
     magnetic_dipole |-> [magnetic_dipole_dipole |-> 1]]

SettingsSet ==
    {[simulation |-> [seed |-> sd, number_of_particles |-> np, box_size |-> bs,
                      grid_size |-> b.grid_size, timestep |-> 1],
      parameters |-> Parameters,
      num_threads |-> nt,
      quasi2d |-> b.quasi2d] :
        sd \in Seeds, np \in 1..MaxParticles, bs \in BoxSizes, b \in Builds,
        nt \in 1..MaxWorkers}

RawParticle(x, y, z, phi, theta) ==
    [position |-> [x |-> x, y |-> y, z |-> z], orientation |-> [phi |-> phi, theta |-> theta]]

\* particles as a user may supply them: inside and outside the canonical ranges
RawBases ==
    {RawParticle(1, 1, 0, 1, 1),
     RawParticle(0 - 1, 5, 3, 0 - 3, 6),
     RawParticle(6, 0 - 2, 0 - 1, 9, 0 - 5),
     RawParticle(3, 2, 1, 7, 0 - 4)}

InputVectors(n) ==
    {[i \in 0..(n - 1) |->
        RawParticle(b.position.x + 2 * i, b.position.y - i, b.position.z,
                    b.orientation.phi + 3 * i, b.orientation.theta)] : b \in RawBases}

\* lengths of the vectors a caller may hand to init: the right one and its neighbours
InputLengths(n) == {n - 1, n, n + 1}

EmptyVec == [i \in {} |-> 0]
NoSnapshot == [particles |-> EmptyVec, rng_state |-> EmptyVec, timestep |-> 0]
ZeroField(grid) == [c \in SpatialCells(grid) |-> [x |-> 0, y |-> 0, z |-> 0]]

lattice_sqrt(v) == CHOOSE r \in 0..(v + 1) : r * r <= v /\ (r + 1) * (r + 1) > v

\* ------------------------------------------------------------------------
\* State
\* ------------------------------------------------------------------------
VARIABLES
    settings,        \* the Settings both simulations are built from
    input,           \* the initial Vec<Particle> handed to init
    distribution,    \* SimulationState.distribution, per simulation
    particles,       \* SimulationState.particles
    random_samples,  \* SimulationState.random_samples
    rng,             \* SimulationState.rng
    timestep,        \* SimulationState.timestep
    magnetic_field,  \* result held by the magnetic solver
    flow_field,      \* result held by the spectral solver
    pc,              \* position of each simulation: new, idle, a phase of do_timestep, panic
    done,            \* chunks of the random draw whose task has finished
    phases,          \* phases of the current do_timestep, in the order they started
    filled_by,       \* for every sample slot, the generator that filled it in this step
    ret,             \* value returned by the last do_timestep
    origin,          \* how the simulation got its state: none, init, resume, file
    snap,            \* the Snapshot last taken or loaded
    snap_from,       \* where snap comes from: none, sim, file
    active,          \* the run that is executing
    call,            \* the last call of a pure helper, with its result
    fftw,            \* the FFTW library: threading calls made, and the FFTPlan values
    driver,          \* run / run_simulation: position, command line, loop variable
    out              \* the I/O worker: entries appended, snapshots written, joins

vars == <<settings, input, distribution, particles, random_samples, rng, timestep,
          magnetic_field, flow_field, pc, done, phases, filled_by, ret, origin,
          snap, snap_from, active, call, fftw, driver, out>>

simvars == <<settings, input, distribution, particles, random_samples, rng, timestep,
             magnetic_field, flow_field, pc, done, phases, filled_by, ret, origin,
             snap, snap_from, active, fftw, driver, out>>

simstate == <<settings, input, distribution, particles, random_samples, rng, timestep,
              magnetic_field, flow_field, pc, done, phases, filled_by, ret, origin,
              snap, snap_from, active>>

NoCall == [fn |-> "none"]

\* Option<T>
None == [some |-> FALSE]
Some(v) == [some |-> TRUE, v |-> v]

\* the FFTW library as the wrapper crate sees it: the cargo features it was built
\* with, the calls made to the threading interface of each precision variant
\* ("fftw" double, "fftwf" single), and the FFTPlan values
MaxPlans == 2
NULL == 0
Variants == {"fftw", "fftwf"}
Features == [single : BOOLEAN, threaded : BOOLEAN]
FftwLoaded(f) ==
    [features |-> f,
     init_threads |-> [v \in Variants |-> 0],
     cleanup_threads |-> [v \in Variants |-> 0],
     plan_with_nthreads |-> [v \in Variants |-> None],
     init_ret |-> None,
     finalized |-> 0,
     plans |-> [i \in 1..MaxPlans |->
                  [state |-> "none", wrapper |-> "none", handle |-> NULL,
                   executed |-> 0, destroyed |-> 0, executed_dead |-> FALSE]]]
DefaultFeatures == [single |-> FALSE, threaded |-> TRUE]

\* before run is entered, and before the I/O worker exists
NoDriver == [pc |-> "none"]
NoOut == [state |-> "none", entries |-> <<>>, snapshots |-> <<>>,
          emergency_joins |-> 0, quits |-> 0]

sim == settings.simulation
NumParticles == sim.number_of_particles
NumWorkers == settings.num_threads

\* ------------------------------------------------------------------------
\* Simulation::new
\* ------------------------------------------------------------------------
new_rng(st) == [i \in 0..(st.num_threads - 1) |-> seed_from_u64(st.simulation.seed)]

kernel_grid_any(grid_size) == TRUE

\* the two assertions of calc_oseen_kernel hold
kernel_grid_even(grid_size) == grid_size.x % 2 = 0 /\ grid_size.y % 2 = 0

\* the construction of the flow solver panics
solver_rejects(st) == ~kernel_grid_even(st.simulation.grid_size)

new_rejects_never(st) == FALSE

\* the check at the top of new: quasi2d needs a single cell along z
new_rejects(st) == st.quasi2d /\ st.simulation.grid_size.z # 1

Constructed(st, inp) ==
    /\ settings = st
    /\ input = inp
    /\ distribution = [s \in Sims |-> Distribution_new(st.simulation.grid_size, st.simulation.box_size)]
    /\ particles = [s \in Sims |-> EmptyVec]
    /\ random_samples = [s \in Sims |-> [j \in 0..(st.simulation.number_of_particles - 1) |-> ZeroVector]]
    /\ rng = [s \in Sims |-> IF new_rejects(st) \/ solver_rejects(st) THEN EmptyVec ELSE new_rng(st)]
    /\ timestep = [s \in Sims |-> 0]
    /\ magnetic_field = [s \in Sims |-> ZeroField(st.simulation.grid_size)]
    /\ flow_field = [s \in Sims |-> ZeroField(st.simulation.grid_size)]
    /\ pc = [s \in Sims |-> IF new_rejects(st) \/ solver_rejects(st) THEN "panic" ELSE "new"]
    /\ done = [s \in Sims |-> {}]
    /\ phases = [s \in Sims |-> <<>>]
    /\ filled_by = [s \in Sims |-> [j \in 0..(st.simulation.number_of_particles - 1) |-> 0 - 1]]
    /\ ret = [s \in Sims |-> 0]
    /\ origin = [s \in Sims |-> "none"]
    /\ snap = NoSnapshot
    /\ snap_from = "none"
    /\ active = 1

Init ==
    /\ \E st \in SettingsSet :
         \E len \in InputLengths(st.simulation.number_of_particles) :
             \E inp \in InputVectors(len) : Constructed(st, inp)
    /\ call = NoCall
    /\ fftw = FftwLoaded(DefaultFeatures)
    /\ driver = NoDriver
    /\ out = NoOut

\* ------------------------------------------------------------------------
\* Simulation::init and Simulation::resume
\* ------------------------------------------------------------------------
box_volume(bs) == RatInt(bs.x * bs.y * bs.z)

\* the sanitizing loop of init
sanitize(ps, bs) ==
    [i \in DOMAIN ps |->
        Particle_new(ps[i].position.x, ps[i].position.y, ps[i].position.z,
                     ps[i].orientation.phi, ps[i].orientation.theta, bs)]

sample_unscaled(self, ps, bs) == sample_from(self, ps)

\* sample_from followed by the renormalization with the box volume
sample_renormalized(self, ps, bs) == scale_dist(sample_from(self, ps), box_volume(bs))

init_body_assert_late(s, ps, to) ==
    LET clean == sanitize(ps, sim.box_size)
    IN  /\ particles' = [particles EXCEPT ![s] = clean]
        /\ IF Len0(ps) = NumParticles /\ index_in_bounds(distribution[s], clean)
           THEN /\ distribution' = [distribution EXCEPT ![s] =
                                       sample_renormalized(@, clean, sim.box_size)]
                /\ pc' = [pc EXCEPT ![s] = to]
           ELSE /\ pc' = [pc EXCEPT ![s] = "panic"]
                /\ distribution' = [distribution EXCEPT ![s] = histogram_from(@, clean)]

\* the state changes of init(ps) on simulation s; to is the position reached
\* when init returns
init_body(s, ps, to) ==
    IF Len0(ps) # NumParticles
    THEN /\ pc' = [pc EXCEPT ![s] = "panic"]
         /\ UNCHANGED <<particles, distribution>>
    ELSE LET clean == sanitize(ps, sim.box_size)
         IN  /\ particles' = [particles EXCEPT ![s] = clean]
             /\ IF index_in_bounds(distribution[s], clean)
                THEN /\ distribution' = [distribution EXCEPT ![s] =
                                            sample_renormalized(@, clean, sim.box_size)]
                     /\ pc' = [pc EXCEPT ![s] = to]
                ELSE /\ pc' = [pc EXCEPT ![s] = "panic"]
                     /\ distribution' = [distribution EXCEPT ![s] = histogram_from(@, clean)]

SimInit(s) ==
    /\ active = s
    /\ pc[s] = "new"
    /\ init_body(s, input, "idle")
    /\ origin' = [origin EXCEPT ![s] = "init"]
    /\ UNCHANGED <<settings, input, random_samples, rng, timestep, magnetic_field, flow_field,
                   done, phases, filled_by, ret, snap, snap_from, active, call, fftw, driver, out>>

resume_rng_kept(r, states) == r

\* the zip of the generators with the snapshot's states
resume_rng(r, states) ==
    [i \in DOMAIN r |-> IF i \in DOMAIN states THEN states[i] ELSE r[i]]

resume(s) ==
    /\ active = s
    /\ pc[s] = "new"
    /\ snap_from # "none"
    /\ init_body(s, snap.particles, "idle")
    /\ IF pc'[s] = "idle"
       THEN /\ timestep' = [timestep EXCEPT ![s] = snap.timestep]
            /\ rng' = [rng EXCEPT ![s] = resume_rng(@, snap.rng_state)]
       ELSE UNCHANGED <<timestep, rng>>
    /\ origin' = [origin EXCEPT ![s] = IF snap_from = "sim" THEN "resume" ELSE "file"]
    /\ UNCHANGED <<settings, input, random_samples, magnetic_field, flow_field,
                   done, phases, filled_by, ret, snap, snap_from, active, call, fftw, driver, out>>

get_snapshot_fresh_timestep(s) ==
    [particles |-> particles[s], rng_state |-> rng[s], timestep |-> 0]

get_snapshot(s) ==
    [particles |-> particles[s], rng_state |-> rng[s], timestep |-> timestep[s]]

get_timestep(s) == timestep[s]
get_particles(s) == particles[s]
get_distribution(s) == distribution[s]

\* the driver of the first run takes a snapshot of the idle simulation
TakeSnapshot(s) ==
    /\ active = s
    /\ s = 1
    /\ pc[s] = "idle"
    /\ snap' = get_snapshot(s)
    /\ snap' # snap
    /\ snap_from' = IF origin[s] = "file" THEN "file" ELSE "sim"
    /\ UNCHANGED <<settings, input, distribution, particles, random_samples, rng, timestep,
                   magnetic_field, flow_field, pc, done, phases, filled_by, ret, origin,
                   active, call, fftw, driver, out>>

\* a snapshot read from a file: its particles are whatever the file holds
FileSnapshot ==
    [particles |-> input,
     rng_state |-> [i \in 0..(NumWorkers - 1) |-> [state |-> (i + 2) % 16]],
     timestep |-> 1]

LoadSnapshot ==
    /\ snap_from = "none"
    /\ active = 2
    /\ pc[2] = "new"
    /\ snap' = FileSnapshot
    /\ snap_from' = "file"
    /\ UNCHANGED <<settings, input, distribution, particles, random_samples, rng, timestep,
                   magnetic_field, flow_field, pc, done, phases, filled_by, ret, origin,
                   active, call, fftw, driver, out>>

\* the first run ends and the second run starts
NextRun ==
    /\ active = 1
    /\ pc[1] \in {"idle", "panic"}
    /\ active' = 2
    /\ UNCHANGED <<settings, input, distribution, particles, random_samples, rng, timestep,
                   magnetic_field, flow_field, pc, done, phases, filled_by, ret, origin,
                   snap, snap_from, call, fftw, driver, out>>

\* ------------------------------------------------------------------------
\* Simulation::do_timestep, phase by phase
\* ------------------------------------------------------------------------
\* sample the distribution from the particles and renormalize it
Sample(s) ==
    /\ active = s
    /\ pc[s] = "idle"
    /\ timestep[s] < MaxSteps
    /\ IF index_in_bounds(distribution[s], particles[s])
       THEN /\ distribution' = [distribution EXCEPT ![s] =
                                   sample_renormalized(@, particles[s], sim.box_size)]
            /\ pc' = [pc EXCEPT ![s] = "sampled"]
       ELSE /\ distribution' = [distribution EXCEPT ![s] = histogram_from(@, particles[s])]
            /\ pc' = [pc EXCEPT ![s] = "panic"]
    /\ phases' = [phases EXCEPT ![s] = <<"sample">>]
    /\ done' = [done EXCEPT ![s] = {}]
    /\ filled_by' = [filled_by EXCEPT ![s] = [j \in DOMAIN @ |-> 0 - 1]]
    /\ UNCHANGED <<settings, input, particles, random_samples, rng, timestep, magnetic_field,
                   flow_field, ret, origin, snap, snap_from, active, call, fftw, driver, out>>

chunksize(s) == chunk_size(Len0(random_samples[s]), Len0(rng[s]))

rot_diffusion == lattice_sqrt(2 * settings.parameters.diffusion.rotational * sim.timestep)

paired_rng_first_free(s, k) == Cardinality(done[s])

\* the generator a chunk is zipped with
paired_rng(s, k) == k

\* one task of the parallel for_each: chunk k is filled from its generator
DrawChunk(s, k) ==
    /\ active = s
    /\ pc[s] \in {"sampled", "rng"}
    /\ k \in zipped_pairs(Len0(random_samples[s]), chunksize(s), Len0(rng[s])) \ done[s]
    /\ LET slots == chunk_slots(Len0(random_samples[s]), chunksize(s), k)
           first == k * chunksize(s)
           last == first + Cardinality(slots) - 1
           g == paired_rng(s, k)
           f == fill_chunk(random_samples[s], rng[s][g], rot_diffusion, first, last)
       IN  /\ random_samples' = [random_samples EXCEPT ![s] = f.samples]
           /\ rng' = [rng EXCEPT ![s][g] = f.rng]
           /\ filled_by' = [filled_by EXCEPT ![s] =
                               [j \in DOMAIN @ |-> IF j \in slots THEN g ELSE @[j]]]
    /\ done' = [done EXCEPT ![s] = @ \cup {k}]
    /\ pc' = [pc EXCEPT ![s] = "rng"]
    /\ phases' = [phases EXCEPT ![s] = IF pc[s] = "sampled" THEN Append(@, "rng") ELSE @]
    /\ UNCHANGED <<settings, input, distribution, particles, timestep, magnetic_field,
                   flow_field, ret, origin, snap, snap_from, active, call, fftw, driver, out>>

draw_started(s) == pc[s] = "rng"

\* the for_each has returned: every task has finished
draw_joined(s) ==
    /\ pc[s] = "rng"
    /\ done[s] = zipped_pairs(Len0(random_samples[s]), chunksize(s), Len0(rng[s]))

MagneticSolve(s) ==
    /\ active = s
    /\ draw_joined(s)
    /\ magnetic_field' = [magnetic_field EXCEPT ![s] =
                             mean_magnetic_field(distribution[s], sim.grid_size)]
    /\ pc' = [pc EXCEPT ![s] = "magnetic"]
    /\ phases' = [phases EXCEPT ![s] = Append(@, "magnetic")]
    /\ UNCHANGED <<settings, input, distribution, particles, random_samples, rng, timestep,
                   flow_field, done, filled_by, ret, origin, snap, snap_from, active, call, fftw, driver, out>>

FlowSolve(s) ==
    /\ active = s
    /\ pc[s] = "magnetic"
    /\ flow_field' = [flow_field EXCEPT ![s] = mean_flow_field(distribution[s], sim.grid_size)]
    /\ pc' = [pc EXCEPT ![s] = "flow"]
    /\ phases' = [phases EXCEPT ![s] = Append(@, "flow")]
    /\ UNCHANGED <<settings, input, distribution, particles, random_samples, rng, timestep,
                   magnetic_field, done, filled_by, ret, origin, snap, snap_from, active, call, fftw, driver, out>>

\* the closure of the particle update for one particle and its sample
update_particle(s, p, r) ==
    LET param == settings.parameters
        idx == get_cell_index(p, distribution[s].grid_width)
        flow == flow_field[s][idx]
        dens == density(distribution[s], sim.grid_size)[idx]
        volex == param.volume_exclusion * RatFloor(dens)
        b0 == magnetic_field[s][idx]
        mdd == param.magnetic_dipole.magnetic_dipole_dipole
        b == [x |-> b0.x * mdd, y |-> b0.y * mdd, z |-> b0.z * mdd]
        diff == lattice_sqrt(2 * sim.timestep * (param.diffusion.translational + volex))
        q == finalize(langevin_modifiers(p, r, flow, b, diff,
                         [magnetic_reorientation |-> param.magnetic_reorientation,
                          magnetic_dipole_dipole |-> 1], sim.timestep),
                      sim.box_size)
    IN  IF settings.quasi2d
        THEN [position |-> [q.position EXCEPT !.z = 0],
              orientation |-> [q.orientation EXCEPT !.theta = PIHALF]]
        ELSE q

next_timestep_twice(t) == t + 2

\* `self.state.timestep += 1`
next_timestep(t) == t + 1

\* the zip of particles and samples
updated_particles(s) ==
    [i \in DOMAIN particles[s] |->
        IF i \in DOMAIN random_samples[s]
        THEN update_particle(s, particles[s][i], random_samples[s][i])
        ELSE particles[s][i]]

\* update every particle, then count the timestep
UpdateParticles(s) ==
    /\ active = s
    /\ pc[s] = "flow"
    /\ particles' = [particles EXCEPT ![s] = updated_particles(s)]
    /\ timestep' = [timestep EXCEPT ![s] = next_timestep(@)]
    /\ ret' = [ret EXCEPT ![s] = timestep'[s]]
    /\ pc' = [pc EXCEPT ![s] = "idle"]
    /\ phases' = [phases EXCEPT ![s] = Append(@, "update")]
    /\ UNCHANGED <<settings, input, distribution, random_samples, rng, magnetic_field,
                   flow_field, done, filled_by, origin, snap, snap_from, active, call, fftw, driver, out>>

Next ==
    \/ \E s \in Sims : SimInit(s)
    \/ \E s \in Sims : resume(s)
    \/ \E s \in Sims : TakeSnapshot(s)
    \/ LoadSnapshot
    \/ NextRun
    \/ \E s \in Sims : Sample(s)
    \/ \E s \in Sims : \E k \in 0..(MaxWorkers + 1) : DrawChunk(s, k)
    \/ \E s \in Sims : MagneticSolve(s)
    \/ \E s \in Sims : FlowSolve(s)
    \/ \E s \in Sims : UpdateParticles(s)

Spec == Init /\ [][Next]_vars

TypeOK == \A s \in Sims : pc[s] \in {"new", "idle", "sampled", "rng", "magnetic", "flow", "panic"}

\* ------------------------------------------------------------------------
\* Calls of the pure helpers
\* ------------------------------------------------------------------------
PureBoxes == {[x |-> lx, y |-> ly, z |-> lz] : lx \in 1..MaxBox, ly \in 1..MaxBox, lz \in 1..MaxBox}
PureGrids == {[x |-> nx, y |-> ny] : nx \in 1..MaxGrid, ny \in 1..MaxGrid}

DefaultSettings == CHOOSE st \in SettingsSet : TRUE

InitFn ==
    /\ Constructed(DefaultSettings,
                   CHOOSE v \in InputVectors(DefaultSettings.simulation.number_of_particles) : TRUE)
    /\ call = NoCall
    /\ fftw = FftwLoaded(DefaultFeatures)
    /\ driver = NoDriver
    /\ out = NoOut

\* Position::new followed by Position::pbc on the result
CallPosition ==
    /\ call = NoCall
    /\ \E x \in (0 - MaxCoord)..MaxCoord, y \in (0 - MaxCoord)..MaxCoord,
       z \in (0 - MaxCoord)..MaxCoord, bs \in PureBoxes :
        call' = [fn |-> "Position", x |-> x, y |-> y, z |-> z, bs |-> bs,
                 result |-> Position_pbc(Position_new(x, y, z, bs), bs)]
    /\ UNCHANGED simvars

CallAngPbc ==
    /\ call = NoCall
    /\ \E phi \in (0 - MaxAngle)..MaxAngle, theta \in (0 - MaxAngle)..MaxAngle :
        call' = [fn |-> "ang_pbc", phi |-> phi, theta |-> theta,
                 result |-> ang_pbc(phi, theta)]
    /\ UNCHANGED simvars

CallKSampling ==
    /\ call = NoCall
    /\ \E gs \in PureGrids, bs \in PureBoxes :
        call' = [fn |-> "get_k_sampling", grid_size |-> gs, box_size |-> bs,
                 result |-> get_k_sampling(gs, bs)]
    /\ UNCHANGED simvars

\* parameter files: unreadable, not parsable, or holding the fields the checks read
ParameterFiles ==
    {[readable |-> FALSE], [readable |-> TRUE, parses |-> FALSE]}
    \cup {[readable |-> TRUE, parses |-> TRUE,
           box_size |-> [x |-> lx, y |-> ly, z |-> lz],
           number_of_particles |-> np,
           particles_head |-> ph] :
             lx \in (0 - 1)..MaxBox, ly \in (0 - 1)..MaxBox, lz \in (0 - 1)..MaxBox,
             np \in 0..MaxParticles,
             ph \in {None} \cup {Some(h) : h \in 0..(MaxParticles + 1)}}

check_settings_box_only(f) ==
    IF f.box_size.x <= 0 \/ f.box_size.y <= 0 \/ f.box_size.z <= 0
    THEN [ok |-> FALSE, error |-> "Box size is invalid"]
    ELSE [ok |-> TRUE]

check_settings(f) ==
    IF f.box_size.x <= 0 \/ f.box_size.y <= 0 \/ f.box_size.z <= 0
    THEN [ok |-> FALSE, error |-> "Box size is invalid"]
    ELSE IF f.particles_head.some /\ f.number_of_particles < f.particles_head.v
    THEN [ok |-> FALSE, error |-> "Cannot output more particles than available"]
    ELSE [ok |-> TRUE]

read_parameter_file(f) ==
    IF ~f.readable THEN [ok |-> FALSE, error |-> "Unable to read parameter file"]
    ELSE IF ~f.parses THEN [ok |-> FALSE, error |-> "Unable to parse parameter file"]
    ELSE IF ~check_settings(f).ok THEN check_settings(f)
    ELSE [ok |-> TRUE,
          settings |-> [box_size |-> f.box_size,
                        number_of_particles |-> f.number_of_particles,
                        particles_head |-> f.particles_head]]

CallReadParameterFile ==
    /\ call = NoCall
    /\ \E f \in ParameterFiles :
        call' = [fn |-> "read_parameter_file", file |-> f, result |-> read_parameter_file(f)]
    /\ UNCHANGED simvars

wrap_rem(i, b) == TruncRem(i, b)

\* the local fn wrap of the index operator: (((i % b) + b) % b) as usize
wrap(i, b) == TruncRem(TruncRem(i, b) + b, b)

\* shapes (sx, sy, sa) of the indexed distributions
IndexShapes == {<<n, (n % MaxGrid) + 1, ((n + 1) % MaxGrid) + 1>> : n \in 1..MaxGrid}

\* Index<[i32; 3]> for Distribution: the cell that uget is handed
CallIndex ==
    /\ call = NoCall
    /\ \E i \in (0 - MaxCoord)..MaxCoord, j \in (0 - MaxCoord)..MaxCoord,
          k \in (0 - MaxCoord)..MaxCoord, shape \in IndexShapes :
        call' = [fn |-> "index", index |-> <<i, j, k>>, shape |-> shape,
                 result |-> <<wrap(i, shape[1]), wrap(j, shape[2]), wrap(k, shape[3])>>]
    /\ UNCHANGED simvars

NextFn ==
    \/ CallPosition
    \/ CallAngPbc
    \/ CallKSampling
    \/ CallReadParameterFile
    \/ CallIndex

SpecFn == InitFn /\ [][NextFn]_vars

\* ------------------------------------------------------------------------
\* FFTPlan of crates/fftw3 ("crate") and of the older src/fftw3 ("legacy"),
\* fftw_init and fttw_finalize
\* ------------------------------------------------------------------------
\* the variant the cfg attributes select for plans, init_threads and
\* plan_with_nthreads
variant(f) == IF f.single THEN "fftwf" ELSE "fftw"

\* the variant whose cleanup_threads fttw_finalize names under each cfg
cleanup_variant(f) == IF f.single THEN "fftw" ELSE "fftwf"

\* FFTPlan::new_c2c_3d: NonNull::new(plan).map(..), no plan for a null handle
new_c2c_3d(p, h) ==
    IF h = NULL THEN [p EXCEPT !.state = "null", !.wrapper = "crate"]
    ELSE [p EXCEPT !.state = "owned", !.wrapper = "crate", !.handle = h]

\* the older FFTPlan::new_c2c: wraps whatever the planner returned
new_c2c(p, h) == [p EXCEPT !.state = "owned", !.wrapper = "legacy", !.handle = h]

\* Drop for FFTPlan: destroy_plan on the wrapped handle
drop(p) == [p EXCEPT !.state = "dropped", !.destroyed = @ + 1]

\* fftw_execute on the wrapped handle
fftw_execute(p) == [p EXCEPT !.executed = @ + 1,
                             !.executed_dead = @ \/ p.destroyed > 0]

\* fftw_init(nthreads); code is what init_threads returns
fftw_init(lib, nthreads, code) ==
    LET v == variant(lib.features)
    IN  IF lib.features.threaded /\ nthreads.some
        THEN IF code = 0
             THEN [lib EXCEPT !.init_threads[v] = @ + 1, !.init_ret = Some("Err")]
             ELSE [lib EXCEPT !.init_threads[v] = @ + 1,
                              !.plan_with_nthreads[v] = nthreads,
                              !.init_ret = Some("Ok")]
        ELSE [lib EXCEPT !.init_ret = Some("Ok")]

\* fttw_finalize
fttw_finalize(lib) ==
    IF lib.features.threaded
    THEN [lib EXCEPT !.cleanup_threads[cleanup_variant(lib.features)] = @ + 1,
                     !.finalized = @ + 1]
    ELSE [lib EXCEPT !.finalized = @ + 1]

InitFft ==
    /\ Constructed(DefaultSettings,
                   CHOOSE v \in InputVectors(DefaultSettings.simulation.number_of_particles) : TRUE)
    /\ call = NoCall
    /\ \E f \in Features : fftw = FftwLoaded(f)
    /\ driver = NoDriver
    /\ out = NoOut

\* the plan created next: plans are numbered in the order of their creation
NextPlan(i) == fftw.plans[i].state = "none" /\ \A j \in 1..(i - 1) : fftw.plans[j].state # "none"

PlanNewCrate ==
    /\ \E i \in 1..MaxPlans : \E h \in {NULL, i} :
         /\ NextPlan(i)
         /\ fftw' = [fftw EXCEPT !.plans[i] = new_c2c_3d(@, h)]
    /\ UNCHANGED <<simstate, call, driver, out>>

PlanNewLegacy ==
    /\ \E i \in 1..MaxPlans : \E h \in {NULL, i} :
         /\ NextPlan(i)
         /\ fftw' = [fftw EXCEPT !.plans[i] = new_c2c(@, h)]
    /\ UNCHANGED <<simstate, call, driver, out>>

\* execute(&self) of the crate: the plan stays owned by the caller
PlanExecuteCrate ==
    /\ \E i \in 1..MaxPlans :
         /\ fftw.plans[i].state = "owned"
         /\ fftw.plans[i].wrapper = "crate"
         /\ fftw.plans[i].executed < MaxSteps
         /\ fftw' = [fftw EXCEPT !.plans[i] = fftw_execute(@)]
    /\ UNCHANGED <<simstate, call, driver, out>>

\* execute(self) of the older wrapper: the plan is moved in and dropped at
\* the end of the call
PlanExecuteLegacy ==
    /\ \E i \in 1..MaxPlans :
         /\ fftw.plans[i].state = "owned"
         /\ fftw.plans[i].wrapper = "legacy"
         /\ fftw' = [fftw EXCEPT !.plans[i] = drop(fftw_execute(@))]
    /\ UNCHANGED <<simstate, call, driver, out>>

\* the owner's scope ends, by return or by unwinding
PlanDrop ==
    /\ \E i \in 1..MaxPlans :
         /\ fftw.plans[i].state = "owned"
         /\ fftw' = [fftw EXCEPT !.plans[i] = drop(@)]
    /\ UNCHANGED <<simstate, call, driver, out>>

CallFftwInit ==
    /\ fftw.init_ret = None
    /\ fftw.finalized = 0
    /\ \E nthreads \in {None} \cup {Some(n) : n \in 1..MaxWorkers} : \E code \in {0, 1} :
         fftw' = fftw_init(fftw, nthreads, code)
    /\ UNCHANGED <<simstate, call, driver, out>>

\* Drop for Simulation; a Simulation exists only when the fftw_init(..).unwrap()
\* of Simulation::new went through
CallFttwFinalize ==
    /\ fftw.init_ret = Some("Ok")
    /\ fftw.finalized = 0
    /\ fftw' = fttw_finalize(fftw)
    /\ UNCHANGED <<simstate, call, driver, out>>

NextFft ==
    \/ PlanNewCrate
    \/ PlanNewLegacy
    \/ PlanExecuteCrate
    \/ PlanExecuteLegacy
    \/ PlanDrop
    \/ CallFftwInit
    \/ CallFttwFinalize

SpecFft == InitFft /\ [][NextFft]_vars

\* ------------------------------------------------------------------------
\* The driver: main, run and run_simulation of src/bin/main.rs, driving
\* simulation 1 and the I/O worker
\* ------------------------------------------------------------------------
\* settings of the driven simulation: one that Simulation::new accepts
RunSettings ==
    CHOOSE st \in SettingsSet :
        /\ ~new_rejects(st) /\ ~solver_rejects(st)
        /\ st.num_threads = 1
        /\ st.simulation.number_of_particles = 1

\* an initial condition that init accepts
RunInput ==
    CHOOSE v \in InputVectors(1) :
        index_in_bounds(Distribution_new(RunSettings.simulation.grid_size,
                                         RunSettings.simulation.box_size),
                        sanitize(v, RunSettings.simulation.box_size))

\* output_at_timestep: a cadence is absent or a number of timesteps
Cadences == {None, Some(2)}
OutputAtTimestep ==
    [distribution : Cadences, flowfield : Cadences, magneticfield : Cadences,
     particles : Cadences, snapshot : Cadences,
     initial_condition : BOOLEAN, final_snapshot : BOOLEAN]

\* the command line, whether the parameter file can be read, and what it
\* holds: runs that differ in how they start, and runs that differ in what
\* they output
RunConfigs ==
    {[cli |-> cl, parameter_file |-> rd, init_file |-> f,
      output_at_timestep |->
          [distribution |-> Some(2), flowfield |-> None, magneticfield |-> None,
           particles |-> None, snapshot |-> Some(2),
           initial_condition |-> TRUE, final_snapshot |-> TRUE],
      number_of_timesteps |-> IF cl.resume /\ f THEN MaxSteps - 2 ELSE MaxSteps - 1] :
        cl \in [initial_condition : BOOLEAN, resume : BOOLEAN],
        rd \in BOOLEAN, f \in BOOLEAN}
    \cup {[cli |-> [initial_condition |-> FALSE, resume |-> FALSE],
           parameter_file |-> TRUE, init_file |-> FALSE,
           output_at_timestep |-> oat, number_of_timesteps |-> MaxSteps - 1] :
             oat \in OutputAtTimestep}

InitRun ==
    /\ Constructed(RunSettings, RunInput)
    /\ call = NoCall
    /\ fftw = FftwLoaded(DefaultFeatures)
    /\ \E cfg \in RunConfigs :
         driver = [pc |-> "start", cfg |-> cfg, init_type |-> "none", timestep |-> 0,
                   n |-> 0, called_at |-> 0, entry |-> None, append_failed |-> FALSE,
                   result |-> None, exit_code |-> None]
    /\ out = NoOut

\* `?` and bail!: run returns the error
Failed(d) == [d EXCEPT !.pc = "returned", !.result = Some("Err")]

\* settings::read_parameter_file(..).chain_err(..)?
ReadSettings ==
    /\ driver.pc = "start"
    /\ driver' = IF driver.cfg.parameter_file
                 THEN [driver EXCEPT !.pc = "output_path"]
                 ELSE Failed(driver)
    /\ UNCHANGED <<simstate, call, fftw, out>>

\* path.create()? and settings.save_to_file(..)?
CreateOutputPath ==
    /\ driver.pc = "output_path"
    /\ \E ok \in BOOLEAN :
         driver' = IF ok THEN [driver EXCEPT !.pc = "init_type"] ELSE Failed(driver)
    /\ UNCHANGED <<simstate, call, fftw, out>>

\* the if-chain that selects the InitType, or bails
init_type(cl, init_file) ==
    IF cl.initial_condition THEN "Stdin"
    ELSE IF ~init_file THEN (IF cl.resume THEN "bail" ELSE "Distribution")
    ELSE IF cl.resume THEN "Resume"
    ELSE "File"

SelectInitType ==
    /\ driver.pc = "init_type"
    /\ LET t == init_type(driver.cfg.cli, driver.cfg.init_file)
       IN  driver' = IF t = "bail" THEN Failed(driver)
                     ELSE [driver EXCEPT !.pc = "init_simulation", !.init_type = t]
    /\ UNCHANGED <<simstate, call, fftw, out>>

\* init::init_simulation: resume from the snapshot of init_file, or init with
\* the particles read or drawn
InitSimulation ==
    /\ driver.pc = "init_simulation"
    /\ pc[1] = "new"
    /\ IF driver.init_type = "Resume"
       THEN /\ snap' = FileSnapshot
            /\ snap_from' = "file"
            /\ init_body(1, FileSnapshot.particles, "idle")
            /\ IF pc'[1] = "idle"
               THEN /\ timestep' = [timestep EXCEPT ![1] = FileSnapshot.timestep]
                    /\ rng' = [rng EXCEPT ![1] = resume_rng(@, FileSnapshot.rng_state)]
               ELSE UNCHANGED <<timestep, rng>>
            /\ origin' = [origin EXCEPT ![1] = "file"]
       ELSE /\ init_body(1, input, "idle")
            /\ origin' = [origin EXCEPT ![1] = "init"]
            /\ UNCHANGED <<snap, snap_from, timestep, rng>>
    /\ driver' = [driver EXCEPT !.pc = IF pc'[1] = "idle" THEN "worker" ELSE "panicked"]
    /\ UNCHANGED <<settings, input, random_samples, magnetic_field, flow_field,
                   done, phases, filled_by, ret, active, call, fftw, out>>

\* Worker::new(..)? and worker.write_metadata(..)?
StartWorker ==
    /\ driver.pc = "worker"
    /\ \E ok \in BOOLEAN :
         IF ok
         THEN /\ out' = [NoOut EXCEPT !.state = "running"]
              /\ driver' = [driver EXCEPT !.pc = "initial_condition"]
         ELSE /\ driver' = Failed(driver)
              /\ UNCHANGED out
    /\ UNCHANGED <<simstate, call, fftw>>

\* an OutputEntry; OutputEntry::default() has no item and timestep 0
OutputEntry(d, f, m, p, t) ==
    [distribution |-> d, flowfield |-> f, magneticfield |-> m, particles |-> p, timestep |-> t]

\* the entry of the initial condition
initial_entry(oat) ==
    OutputEntry(Some(get_distribution(1)), None, None,
                IF oat.particles.some THEN Some(get_particles(1)) ELSE None, 0)

\* the start of run_simulation: the initial condition is appended when asked
\* for, then the bounds of the loop are computed
loop_bounds_from_counter(d) ==
    [d EXCEPT !.pc = "loop",
              !.timestep = get_timestep(1),
              !.n = d.cfg.number_of_timesteps + get_timestep(1)]

\* timestep_start and n
loop_bounds(d) ==
    [d EXCEPT !.pc = "loop",
              !.timestep = get_timestep(1) + 1,
              !.n = d.cfg.number_of_timesteps + get_timestep(1) + 1]

AppendInitial ==
    /\ driver.pc = "initial_condition"
    /\ IF driver.cfg.output_at_timestep.initial_condition
       THEN \E ok \in BOOLEAN :
              IF ok
              THEN /\ out' = [out EXCEPT !.entries =
                                 Append(@, initial_entry(driver.cfg.output_at_timestep))]
                   /\ driver' = loop_bounds(driver)
              ELSE /\ driver' = Failed(driver)
                   /\ UNCHANGED out
       ELSE /\ driver' = loop_bounds(driver)
            /\ UNCHANGED out
    /\ UNCHANGED <<simstate, call, fftw>>

\* `for timestep in timestep_start..=n`; called_at is the counter of the
\* simulation when do_timestep is called
LoopHead ==
    /\ driver.pc = "loop"
    /\ driver' = [driver EXCEPT !.pc = IF driver.timestep <= driver.n
                                       THEN "do_timestep" ELSE "final_snapshot",
                                !.called_at = get_timestep(1)]
    /\ UNCHANGED <<simstate, call, fftw, out>>

\* simulation.do_timestep(), phase by phase
DoTimestep ==
    /\ driver.pc = "do_timestep"
    /\ \/ timestep[1] = driver.called_at /\ Sample(1)
       \/ \E k \in 0..(MaxWorkers - 1) : DrawChunk(1, k)
       \/ MagneticSolve(1)
       \/ FlowSolve(1)
       \/ UpdateParticles(1)

\* `cadence.and_then(|x| if timestep % x == 0 { Some(item) } else { None })`
due_always(cadence, t, item) == Some(item)
due(cadence, t, item) ==
    IF cadence.some /\ t % cadence.v = 0 THEN Some(item) ELSE None

build_entry(oat, t) ==
    OutputEntry(due(oat.distribution, t, get_distribution(1)),
                due(oat.flowfield, t, flow_field[1]),
                due(oat.magneticfield, t, magnetic_field[1]),
                due(oat.particles, t, get_particles(1)),
                t)

\* do_timestep has returned: the entry of this timestep is built
BuildEntry ==
    /\ driver.pc = "do_timestep"
    /\ pc[1] = "idle"
    /\ timestep[1] # driver.called_at
    /\ driver' = [driver EXCEPT !.pc = "append",
                                !.entry = Some(build_entry(driver.cfg.output_at_timestep,
                                                           driver.timestep))]
    /\ UNCHANGED <<simstate, call, fftw, out>>

\* the condition under which the entry is handed to the worker
worth_appending(e) == e.distribution.some \/ e.flowfield.some \/ e.particles.some

\* `Err(_) => return out.emergency_join()` and a variant that carries on
append_failed_carry_on(d) == [d EXCEPT !.pc = "snapshot", !.append_failed = TRUE]
append_failed(d) == [d EXCEPT !.pc = "returned", !.append_failed = TRUE, !.result = Some("Err")]

\* Worker::emergency_join: the writer is joined and its error is returned
emergency_join(o) == [o EXCEPT !.state = "joined", !.emergency_joins = @ + 1]

\* the entry is appended when it is worth it; a failed append ends the run
AppendEntry ==
    /\ driver.pc = "append"
    /\ IF worth_appending(driver.entry.v)
       THEN \E ok \in BOOLEAN :
              IF ok
              THEN /\ out' = [out EXCEPT !.entries = Append(@, driver.entry.v)]
                   /\ driver' = [driver EXCEPT !.pc = "snapshot"]
              ELSE /\ out' = emergency_join(out)
                   /\ driver' = append_failed(driver)
       ELSE /\ driver' = [driver EXCEPT !.pc = "snapshot"]
            /\ UNCHANGED out
    /\ UNCHANGED <<simstate, call, fftw>>

\* the snapshot of this timestep, when due; the loop variable advances
WriteSnapshot ==
    /\ driver.pc = "snapshot"
    /\ LET c == driver.cfg.output_at_timestep.snapshot
       IN  IF c.some /\ driver.timestep % c.v = 0
           THEN \E ok \in BOOLEAN :
                  /\ out' = [out EXCEPT !.snapshots = Append(@, get_snapshot(1))]
                  /\ driver' = IF ok THEN [driver EXCEPT !.pc = "loop", !.timestep = @ + 1]
                               ELSE Failed(driver)
           ELSE /\ driver' = [driver EXCEPT !.pc = "loop", !.timestep = @ + 1]
                /\ UNCHANGED out
    /\ UNCHANGED <<simstate, call, fftw>>

\* after the loop: the final snapshot, when asked for
FinalSnapshot ==
    /\ driver.pc = "final_snapshot"
    /\ IF driver.cfg.output_at_timestep.final_snapshot
       THEN \E ok \in BOOLEAN :
              /\ out' = [out EXCEPT !.snapshots = Append(@, get_snapshot(1))]
              /\ driver' = IF ok THEN [driver EXCEPT !.pc = "quit"] ELSE Failed(driver)
       ELSE /\ driver' = [driver EXCEPT !.pc = "quit"]
            /\ UNCHANGED out
    /\ UNCHANGED <<simstate, call, fftw>>

\* out.quit()?
Quit ==
    /\ driver.pc = "quit"
    /\ out' = [out EXCEPT !.state = "quit", !.quits = @ + 1]
    /\ \E ok \in BOOLEAN :
         driver' = IF ok THEN [driver EXCEPT !.pc = "returned", !.result = Some("Ok")]
                   ELSE Failed(driver)
    /\ UNCHANGED <<simstate, call, fftw>>

\* main: exit(1) on an error of run, exit(0) otherwise
exit_code(result) == IF result = Some("Err") THEN 1 ELSE 0

Exit ==
    /\ driver.pc = "returned"
    /\ driver' = [driver EXCEPT !.pc = "exited", !.exit_code = Some(exit_code(driver.result))]
    /\ UNCHANGED <<simstate, call, fftw, out>>

NextDriver ==
    \/ ReadSettings
    \/ CreateOutputPath
    \/ SelectInitType
    \/ InitSimulation
    \/ StartWorker
    \/ AppendInitial
    \/ LoopHead
    \/ DoTimestep
    \/ BuildEntry
    \/ AppendEntry
    \/ WriteSnapshot
    \/ FinalSnapshot
    \/ Quit
    \/ Exit

SpecRun == InitRun /\ [][NextDriver]_vars

\* ------------------------------------------------------------------------
\* Properties
\* ------------------------------------------------------------------------
canonical(p, bs) ==
    /\ 0 <= p.position.x /\ p.position.x < bs.x
    /\ 0 <= p.position.y /\ p.position.y < bs.y
    /\ 0 <= p.position.z /\ p.position.z < bs.z
    /\ 0 <= p.orientation.phi /\ p.orientation.phi < TWOPI
    /\ 0 <= p.orientation.theta /\ p.orientation.theta <= PI

Initialised(s) == pc[s] \in {"idle", "sampled", "rng", "magnetic", "flow"}

\* the least non-negative residue, found by search
EuclidMod(a, m) ==
    CHOOSE r \in 0..(m - 1) : \E q \in (0 - Abs(a) - 1)..(Abs(a) + 1) : a = q * m + r

\* C1: two simulations built from the same settings, worker count and initial
\* particles are in the same state (particles, generator states, timestep
\* counter) after the same number of do_timestep calls, whatever the order in
\* which the tasks of the random draw ran.
C1_Determinism ==
    (/\ pc[1] = "idle" /\ pc[2] = "idle"
     /\ origin[1] = "init" /\ origin[2] = "init"
     /\ timestep[1] = timestep[2])
        => /\ particles[1] = particles[2]
           /\ rng[1] = rng[2]
           /\ get_snapshot(1) = get_snapshot(2)

C1_Witness ==
    /\ pc[1] = "idle" /\ pc[2] = "idle"
    /\ origin[1] = "init" /\ origin[2] = "init"
    /\ timestep[1] = timestep[2] /\ timestep[1] >= 2
    /\ Cardinality(zipped_pairs(NumParticles, chunksize(1), Len0(rng[1]))) >= 2

\* C2: a simulation resumed from the snapshot another one took after N steps,
\* and stepped M more times, has the snapshot of the uninterrupted run after
\* N + M steps.
C2_ResumeEquivalence ==
    (/\ pc[1] = "idle" /\ pc[2] = "idle"
     /\ origin[1] = "init" /\ origin[2] = "resume"
     /\ timestep[1] = timestep[2])
        => get_snapshot(2) = get_snapshot(1)

C2_Witness ==
    /\ pc[1] = "idle" /\ pc[2] = "idle"
    /\ origin[1] = "init" /\ origin[2] = "resume"
    /\ snap.timestep >= 1
    /\ timestep[2] > snap.timestep
    /\ timestep[1] = timestep[2]

IsPrefix(p, q) == Len(p) <= Len(q) /\ \A i \in 1..Len(p) : p[i] = q[i]

\* C3 as stated: the phases of a step start in the order sample, magnetic
\* solve, flow solve, random draw, particle update.
C3_Original ==
    \A s \in Sims : IsPrefix(phases[s], <<"sample", "magnetic", "flow", "rng", "update">>)

\* C3: the phases of a step run in the strict order sample, random draw,
\* magnetic solve, flow solve, particle update; the solves start only when
\* every task of the random draw has finished.
C3_PhaseOrder ==
    \A s \in Sims :
        /\ IsPrefix(phases[s], <<"sample", "rng", "magnetic", "flow", "update">>)
        /\ (Len(phases[s]) >= 3 =>
                done[s] = zipped_pairs(NumParticles, chunksize(s), NumWorkers))

C3_Witness ==
    \E s \in Sims :
        /\ phases[s] = <<"sample", "rng", "magnetic", "flow", "update">>
        /\ Cardinality(done[s]) >= 2

DrawComplete(s) == Len(phases[s]) >= 3

CeilDiv(a, b) == (a + b - 1) \div b

\* C4 as stated: the sample buffer is cut into chunks of exactly
\* ceil(Nparticles / Nworkers) slots and chunk i is filled from generator i.
C4_Original ==
    \A s \in Sims : DrawComplete(s) =>
        \A j \in DOMAIN random_samples[s] :
            filled_by[s][j] = j \div CeilDiv(NumParticles, NumWorkers)

\* C4: the sample buffer is cut into contiguous chunks of exactly
\* floor(Nparticles / Nworkers) + 1 slots (only the last may be shorter) and
\* chunk i is filled from generator i.
C4_ChunkPairing ==
    \A s \in Sims : DrawComplete(s) =>
        \A j \in DOMAIN random_samples[s] :
            filled_by[s][j] = j \div (NumParticles \div NumWorkers + 1)

C4_Witness ==
    \E s \in Sims :
        /\ DrawComplete(s)
        /\ NumParticles % NumWorkers = 0
        /\ NumWorkers >= 2

\* C5: a fresh simulation has timestep 0; completing do_timestep adds exactly
\* one and returns the new value; only resume changes the counter otherwise,
\* to the timestep of the snapshot.
C5_TimestepCounter ==
    /\ \A s \in Sims : timestep[s] = 0
    /\ [][\A s \in Sims :
            /\ (pc[s] = "flow" /\ pc'[s] = "idle") =>
                   (timestep'[s] = timestep[s] + 1 /\ ret'[s] = timestep'[s])
            /\ (timestep'[s] # timestep[s]) =>
                   \/ (pc[s] = "flow" /\ pc'[s] = "idle")
                   \/ (pc[s] = "new" /\ pc'[s] = "idle" /\ origin'[s] \in {"resume", "file"}
                         /\ timestep'[s] = snap.timestep)
            /\ (pc[s] = "new" /\ origin'[s] = "init") => timestep'[s] = 0]_vars

C5_Witness ==
    \E s \in Sims : pc[s] = "idle" /\ timestep[s] >= 2 /\ ret[s] = timestep[s]

\* C6: once init or resume has returned, and after every do_timestep, every
\* particle of the simulation is in the canonical ranges.
C6_ParticlesCanonical ==
    \A s \in Sims : Initialised(s) =>
        \A i \in DOMAIN particles[s] : canonical(particles[s][i], sim.box_size)

C6_Witness ==
    \E s \in Sims :
        /\ pc[s] = "idle" /\ timestep[s] >= 1 /\ ret[s] >= 1
        /\ \E i \in DOMAIN input : ~canonical(input[i], sim.box_size)

\* C7: Position::new and pbc reduce every coordinate by the Euclidean modulo
\* into [0, L); ang_pbc reduces theta mod 2 pi and, when that exceeds pi,
\* returns (phi + pi mod 2 pi, 2 pi - theta), otherwise (phi mod 2 pi, theta);
\* its result has phi in [0, 2 pi) and theta in [0, pi].
C7_PeriodicProjection ==
    /\ call.fn = "Position" =>
           /\ call.result.x = EuclidMod(call.x, call.bs.x)
           /\ call.result.y = EuclidMod(call.y, call.bs.y)
           /\ call.result.z = EuclidMod(call.z, call.bs.z)
    /\ call.fn = "ang_pbc" =>
           LET th == EuclidMod(call.theta, TWOPI)
           IN  /\ call.result = IF th > PI
                                THEN [phi |-> EuclidMod(call.phi + PI, TWOPI), theta |-> TWOPI - th]
                                ELSE [phi |-> EuclidMod(call.phi, TWOPI), theta |-> th]
               /\ 0 <= call.result.phi /\ call.result.phi < TWOPI
               /\ 0 <= call.result.theta /\ call.result.theta <= PI

C7_Witness ==
    /\ call.fn = "ang_pbc"
    /\ call.theta < 0
    /\ call.result.theta = TWOPI - EuclidMod(call.theta, TWOPI)
    /\ call.phi < 0

\* the particles of s that coord_to_grid puts into cell c
InCell(s, c) == {i \in DOMAIN particles[s] : coord_to_grid(distribution[s], particles[s][i]) = c}

\* sample_from has been called on the canonical particles the simulation holds
SampledCanonical(s) ==
    /\ pc[s] \in {"sampled", "panic"}
    /\ Len0(particles[s]) = NumParticles
    /\ \A i \in DOMAIN particles[s] : canonical(particles[s][i], sim.box_size)

\* C8: after sample_from on any set of canonical particles every particle is
\* counted in exactly one cell: the histogram sums to the number of particles,
\* sum(rho) times the cell hypervolume is Nparticles, and after the
\* renormalization of the driver sum(rho) * cell hypervolume / (Lx Ly Lz) is
\* Nparticles.
C8_Conservation ==
    \A s \in Sims : SampledCanonical(s) =>
        LET vol == cell_volume(distribution[s].grid_width)
            n == RatInt(NumParticles)
            h == histogram_from(distribution[s], particles[s])
        IN  /\ \A i \in DOMAIN particles[s] :
                   Cardinality({c \in DOMAIN h.dist : i \in InCell(s, c)}) = 1
            /\ \A c \in DOMAIN h.dist : h.dist[c] = RatInt(Cardinality(InCell(s, c)))
            /\ dist_sum(h) = n
            /\ RatMul(dist_sum(sample_from(distribution[s], particles[s])), vol) = n
            /\ pc[s] = "sampled" =>
                   RatDiv(RatMul(dist_sum(distribution[s]), vol), box_volume(sim.box_size)) = n

\* C9: for every particle in canonical range (theta in [0, pi] included) the
\* cell index of the sampler and of the particle update lies inside the grid.
C9_IndexInGrid ==
    \A s \in Sims : \A i \in DOMAIN particles[s] :
        canonical(particles[s][i], sim.box_size) =>
            /\ coord_to_grid(distribution[s], particles[s][i]) \in Cells(sim.grid_size)
            /\ get_cell_index(particles[s][i], distribution[s].grid_width)
                   \in SpatialCells(sim.grid_size)

\* m * (2 pi / L)
KValue(m, L) == Rat(m * TWOPI, L)

AxisSize(g, axis) == IF axis = 1 THEN g.x ELSE g.y

\* C10 as stated: index 0 maps to 0, indices 1..floor(n/2) to i * (2 pi / L)
\* and the indices above floor(n/2) to (i - n) * (2 pi / L), so that for even
\* n the Nyquist index holds + n/2 * (2 pi / L).
C10_Original ==
    call.fn = "get_k_sampling" =>
        \A axis \in 1..2 :
            LET n == AxisSize(call.grid_size, axis)
                L == AxisSize(call.box_size, axis)
                k == call.result[axis]
            IN  \A i \in 0..(n - 1) :
                    k[i] = IF i <= n \div 2 THEN KValue(i, L) ELSE KValue(i - n, L)

\* C10: index 0 maps to 0, the indices below ceil(n/2) to i * (2 pi / L) and
\* the indices from ceil(n/2) on to (i - n) * (2 pi / L); for even n the
\* Nyquist index n/2 holds - n/2 * (2 pi / L).
C10_KSampling ==
    call.fn = "get_k_sampling" =>
        \A axis \in 1..2 :
            LET n == AxisSize(call.grid_size, axis)
                L == AxisSize(call.box_size, axis)
                k == call.result[axis]
            IN  /\ DOMAIN k = 0..(n - 1)
                /\ k[0] = RatInt(0)
                /\ \A i \in 0..(n - 1) :
                       k[i] = IF i < CeilDiv(n, 2) THEN KValue(i, L) ELSE KValue(i - n, L)
                /\ n % 2 = 0 => k[n \div 2] = KValue(0 - (n \div 2), L)

C10_Witness ==
    /\ call.fn = "get_k_sampling"
    /\ call.grid_size.x = 6 /\ call.grid_size.y = 5
    /\ call.result[1][3] = KValue(0 - 3, call.box_size.x)
    /\ call.result[2][2] = KValue(2, call.box_size.y)
    /\ call.result[2][3] = KValue(0 - 2, call.box_size.y)

\* the vector handed to the init that the step from here to the next state calls
InitArgument(s) == IF origin'[s] = "init" THEN input ELSE snap.particles

\* C13: init called with a vector whose length differs from
\* number_of_particles fails at once, and the particles, the distribution,
\* the generator states and the timestep counter of the simulation are as
\* they were before the call.
C13_InitLengthMismatch ==
    [][\A s \in Sims :
          (/\ pc[s] = "new" /\ origin'[s] # origin[s]
           /\ Len0(InitArgument(s)) # NumParticles)
              => /\ pc'[s] = "panic"
                 /\ particles'[s] = particles[s]
                 /\ distribution'[s] = distribution[s]
                 /\ rng'[s] = rng[s]
                 /\ timestep'[s] = timestep[s]]_vars

C13_Witness ==
    \E s \in Sims :
        /\ pc[s] = "panic" /\ origin[s] = "init"
        /\ Len0(input) = NumParticles + 1
        /\ particles[s] = EmptyVec
        /\ rng[s] = new_rng(settings)

\* a do_timestep of s has completed and nothing was called since
StepCompleted(s) == pc[s] = "idle" /\ Len(phases[s]) = 5

\* C19: with quasi2d, new rejects every grid with Nz # 1 before anything is
\* set up (no generator exists, nothing can be called), and after every
\* completed do_timestep every particle has z = 0 and theta = pi / 2.
C19_Quasi2d ==
    settings.quasi2d =>
        \A s \in Sims :
            /\ sim.grid_size.z # 1 =>
                   /\ pc[s] = "panic" /\ origin[s] = "none"
                   /\ rng[s] = EmptyVec /\ particles[s] = EmptyVec /\ timestep[s] = 0
            /\ StepCompleted(s) =>
                   \A i \in DOMAIN particles[s] :
                       /\ particles[s][i].position.z = 0
                       /\ particles[s][i].orientation.theta = PIHALF

C19_Witness ==
    /\ settings.quasi2d /\ sim.grid_size.z = 1
    /\ StepCompleted(2) /\ timestep[2] >= 2
    /\ \E i \in DOMAIN input : input[i].position.z # 0 /\ input[i].orientation.theta # PIHALF

\* C15: a parameter file whose box has a length <= 0, or whose
\* particles_head exceeds number_of_particles, makes read_parameter_file
\* return an error and no settings value.
C15_InvalidConfigRejected ==
    (/\ call.fn = "read_parameter_file"
     /\ call.file.readable /\ call.file.parses
     /\ \/ call.file.box_size.x <= 0 \/ call.file.box_size.y <= 0 \/ call.file.box_size.z <= 0
        \/ (call.file.particles_head.some
              /\ call.file.particles_head.v > call.file.number_of_particles))
        => /\ ~call.result.ok
           /\ "settings" \notin DOMAIN call.result
           /\ "error" \in DOMAIN call.result

C15_Witness ==
    /\ call.fn = "read_parameter_file"
    /\ call.file.readable /\ call.file.parses
    /\ call.file.box_size.x > 0 /\ call.file.box_size.y > 0 /\ call.file.box_size.z > 0
    /\ call.file.particles_head = Some(call.file.number_of_particles + 1)
    /\ ~call.result.ok

C17_PlanResources ==
    \A i \in 1..MaxPlans :
        LET p == fftw.plans[i]
        IN  /\ p.state \in {"owned", "dropped"} => p.handle # NULL
            /\ p.state = "owned" => p.destroyed = 0
            /\ p.state = "dropped" => p.destroyed = 1
            /\ p.state \in {"none", "null"} => p.destroyed = 0 /\ p.executed = 0
            /\ ~p.executed_dead

\* ------------------------------------------------------------------------
\* C18: fttw_finalize calls cleanup_threads of exactly the variant whose
\* init_threads fftw_init called; without threading neither is called;
\* when init_threads reports failure fftw_init returns an error and sets no
\* thread count
\* ------------------------------------------------------------------------
C18_ThreadingResources ==
    /\ fftw.finalized > 0 =>
          \A v \in Variants : fftw.cleanup_threads[v] = fftw.init_threads[v]
    /\ ~fftw.features.threaded =>
          \A v \in Variants : fftw.init_threads[v] = 0 /\ fftw.cleanup_threads[v] = 0
    /\ fftw.init_ret = Some("Err") =>
          \A v \in Variants : fftw.plan_with_nthreads[v] = None
\* ------------------------------------------------------------------------
\* C14: when resume is requested on the command line and the settings name
\* no init_file, run fails before the simulation is initialized and before
\* any timestep, whatever other flags are present
\* ------------------------------------------------------------------------
PastInitType == driver.pc \notin {"start", "output_path", "init_type"}

C14_ResumeMissing ==
    (driver.cfg.cli.resume /\ ~driver.cfg.init_file /\ PastInitType) =>
        /\ driver.result = Some("Err")
        /\ pc[1] = "new"
        /\ timestep[1] = 0
        /\ driver.pc = "exited" => driver.exit_code = Some(1)
\* ------------------------------------------------------------------------
\* C11: the entry built in the loop for timestep t carries each of
\* distribution, flowfield, magneticfield and particles if and only if its
\* cadence c is configured and t mod c = 0; an iteration that reaches its
\* snapshot stage writes a snapshot of timestep t if and only if the snapshot
\* cadence c is configured and t mod c = 0; after the loop one more snapshot
\* is written if and only if final_snapshot is set
\* ------------------------------------------------------------------------
Items == {"distribution", "flowfield", "magneticfield", "particles"}

IsDue(cadence, t) == cadence.some /\ t % cadence.v = 0

EntryCadence ==
    driver.pc = "append" =>
        /\ driver.entry.v.timestep = driver.timestep
        /\ \A item \in Items :
             driver.entry.v[item].some <=>
                 IsDue(driver.cfg.output_at_timestep[item], driver.timestep)

SnapshotCadence ==
    /\ driver.pc = "snapshot" =>
          IF IsDue(driver.cfg.output_at_timestep.snapshot, driver.timestep)
          THEN /\ out'.snapshots = Append(out.snapshots, get_snapshot(1))
               /\ get_snapshot(1).timestep = driver.timestep
          ELSE out'.snapshots = out.snapshots
    /\ driver.pc = "final_snapshot" =>
          IF driver.cfg.output_at_timestep.final_snapshot
          THEN /\ out'.snapshots = Append(out.snapshots, get_snapshot(1))
               /\ get_snapshot(1).timestep = driver.n
          ELSE out'.snapshots = out.snapshots
    /\ (driver.pc \in {"initial_condition", "loop", "do_timestep", "append", "quit", "returned"}) =>
          out'.snapshots = out.snapshots

C11_OutputCadence == [](EntryCadence) /\ [][SnapshotCadence]_vars

C11_Witness ==
    /\ driver.pc = "exited"
    /\ driver.exit_code = Some(0)
    /\ driver.cfg.output_at_timestep.flowfield.some
    /\ ~driver.cfg.output_at_timestep.particles.some
    /\ Len(out.entries) = 1
    /\ out.entries[1].timestep = 2
    /\ out.entries[1].flowfield.some
    /\ ~out.entries[1].particles.some
    /\ Len(out.snapshots) = 2
    /\ out.snapshots[1].timestep = 2

\* ------------------------------------------------------------------------
\* C12: at every timestep at which at least one of the four items is due the
\* driver appends exactly one entry for that timestep, holding the due items;
\* at a timestep at which none is due nothing is appended
\* ------------------------------------------------------------------------
AnyDue(t) == \E item \in Items : IsDue(driver.cfg.output_at_timestep[item], t)

C12_AppendWhenDue ==
    [][driver.pc = "append" =>
          IF AnyDue(driver.timestep)
          THEN \/ out'.entries = Append(out.entries, driver.entry.v)
               \/ driver'.append_failed
          ELSE out'.entries = out.entries]_vars

\* ------------------------------------------------------------------------
\* C20: when an append fails in the loop the driver does not retry: no
\* further do_timestep, append or snapshot write happens, emergency_join is
\* called exactly once, and the run ends as a fatal error
\* ------------------------------------------------------------------------
AppendFails == ~driver.append_failed /\ driver'.append_failed

C20_AppendFailureFatal ==
    [][/\ AppendFails =>
             /\ out'.emergency_joins = out.emergency_joins + 1
             /\ out'.emergency_joins = 1
             /\ driver'.pc = "returned"
             /\ driver'.result = Some("Err")
             /\ out'.entries = out.entries
       /\ driver.append_failed =>
             /\ timestep' = timestep /\ pc' = pc /\ particles' = particles
             /\ out' = out
             /\ driver'.pc = "exited"
             /\ driver'.exit_code = Some(1)]_vars

C20_Witness ==
    /\ driver.append_failed
    /\ driver.pc = "exited"
    /\ driver.timestep <= driver.n
    /\ out.emergency_joins = 1
\* ------------------------------------------------------------------------
\* C21: get_snapshot returns the current particles, every generator's state
\* verbatim and the timestep counter, and leaves the simulation unchanged;
\* resume with a snapshot taken from a simulation of the same settings,
\* followed by get_snapshot, returns that snapshot
\* ------------------------------------------------------------------------
SnapshotTaken == snap' # snap /\ snap_from' = "sim"

Resumed(s) == pc[s] = "new" /\ origin'[s] = "resume"

C21_SnapshotRoundTrip ==
    [][/\ SnapshotTaken =>
             /\ snap' = [particles |-> particles[1], rng_state |-> rng[1],
                         timestep |-> timestep[1]]
             /\ particles' = particles /\ rng' = rng /\ timestep' = timestep
             /\ distribution' = distribution /\ random_samples' = random_samples
             /\ pc' = pc
       /\ \A s \in Sims : Resumed(s) =>
             /\ pc'[s] = "idle"
             /\ [particles |-> particles'[s], rng_state |-> rng'[s],
                 timestep |-> timestep'[s]] = snap]_vars

C21_Witness ==
    /\ origin[2] = "resume"
    /\ pc[2] = "idle"
    /\ snap.timestep >= 1
    /\ get_snapshot(2) = snap
    /\ rng[2] # new_rng(settings)
\* ------------------------------------------------------------------------
\* C22: in the random draw a generator is read and advanced by exactly one
\* task, the one filling the chunk zipped with it, and by nothing else in the
\* step; the chunks are pairwise disjoint; a generator without a chunk is
\* left unchanged by the step
\* ------------------------------------------------------------------------
Pairs(s) == zipped_pairs(Len0(random_samples[s]), chunksize(s), Len0(rng[s]))

Chunk(s, k) == chunk_slots(Len0(random_samples[s]), chunksize(s), k)

ChunksDisjoint ==
    \A s \in Sims : Len0(rng[s]) > 0 =>
        \A k1 \in Pairs(s) : \A k2 \in Pairs(s) :
            k1 # k2 => Chunk(s, k1) \cap Chunk(s, k2) = {}

InStep(s) == pc[s] \in {"idle", "sampled", "rng", "magnetic", "flow"}

GeneratorOwned ==
    \A s \in Sims : InStep(s) =>
        \A g \in DOMAIN rng[s] :
            \/ rng'[s][g] = rng[s][g]
            \/ /\ g \in Pairs(s)
               /\ done'[s] = done[s] \cup {g}
               /\ g \notin done[s]
               /\ \A j \in DOMAIN random_samples[s] :
                     random_samples'[s][j] # random_samples[s][j] => j \in Chunk(s, g)
               /\ \A h \in DOMAIN rng[s] : h # g => rng'[s][h] = rng[s][h]

C22_GeneratorOwnership == [](ChunksDisjoint) /\ [][GeneratorOwned]_vars

C22_Witness ==
    \E s \in Sims :
        /\ DrawComplete(s)
        /\ timestep[s] = 0
        /\ origin[s] = "init"
        /\ \E g \in DOMAIN rng[s] : g \notin Pairs(s) /\ rng[s][g] = new_rng(settings)[g]
        /\ \E g \in Pairs(s) : rng[s][g] # new_rng(settings)[g]
\* ------------------------------------------------------------------------
\* C23: sample_from zeroes the distribution first, so its result depends only
\* on the particles of that call: sampling on top of the result of an earlier
\* sampling gives the distribution of sampling into a new one
\* ------------------------------------------------------------------------
FreshDistribution == Distribution_new(sim.grid_size, sim.box_size)

InsideStep(s) == pc[s] \in {"sampled", "rng", "magnetic", "flow"}

C23_SampleFromResets ==
    \A s \in Sims :
        /\ (Initialised(s) /\ index_in_bounds(distribution[s], particles[s])) =>
              sample_from(distribution[s], particles[s]) =
                  sample_from(FreshDistribution, particles[s])
        /\ InsideStep(s) =>
              distribution[s] = sample_renormalized(FreshDistribution, particles[s], sim.box_size)

C23_Witness ==
    \E s \in Sims :
        /\ pc[s] = "sampled"
        /\ timestep[s] >= 1
        /\ origin[s] = "init"
        /\ distribution[s] #
              sample_renormalized(FreshDistribution, sanitize(input, sim.box_size), sim.box_size)
\* ------------------------------------------------------------------------
\* C24: in every do_timestep every slot of the random-sample buffer is
\* overwritten with values drawn in that step, and particle i is updated with
\* slot i: no particle is updated with a sample of an earlier step or with
\* the initial zero sample
\* ------------------------------------------------------------------------
DrawnThisStep(s, j) ==
    /\ filled_by[s][j] \in Pairs(s)
    /\ j \in Chunk(s, filled_by[s][j])

BufferRefilled ==
    \A s \in Sims : pc[s] \in {"magnetic", "flow"} =>
        \A j \in DOMAIN random_samples[s] : DrawnThisStep(s, j)

UpdateStep(s) == pc[s] = "flow" /\ pc'[s] = "idle"

UpdatedWithOwnSlot ==
    \A s \in Sims : UpdateStep(s) =>
        /\ DOMAIN particles[s] = DOMAIN random_samples[s]
        /\ \A i \in DOMAIN particles[s] :
              /\ DrawnThisStep(s, i)
              /\ particles'[s][i] = update_particle(s, particles[s][i], random_samples[s][i])

C24_FreshSamples == [](BufferRefilled) /\ [][UpdatedWithOwnSlot]_vars

C24_Witness ==
    \E s \in Sims :
        /\ pc[s] = "flow"
        /\ timestep[s] >= 1
        /\ NumParticles >= 3
        /\ NumWorkers >= 2
        /\ \A j \in DOMAIN random_samples[s] : DrawnThisStep(s, j)
\* ------------------------------------------------------------------------
\* C25: the signed index operator of Distribution wraps each index
\* periodically: it reads the entry at (i mod sx, j mod sy, k mod sa) with
\* the non-negative modulo, for negative indices and indices beyond the
\* shape, and never a cell outside the array
\* ------------------------------------------------------------------------
C25_IndexWraps ==
    call.fn = "index" =>
        \A a \in 1..3 :
            /\ call.result[a] = EuclidMod(call.index[a], call.shape[a])
            /\ call.result[a] \in 0..(call.shape[a] - 1)

C25_Witness ==
    /\ call.fn = "index"
    /\ call.index[1] < 0 - call.shape[1]
    /\ call.index[2] >= 2 * call.shape[2]
    /\ call.index[3] = 0 - 1
    /\ call.result[3] = call.shape[3] - 1
    /\ call.shape[3] >= 2
\* ------------------------------------------------------------------------
\* C26: a run started at timestep counter T (0 when fresh, the snapshot's
\* timestep when resumed) that ends without error has called do_timestep
\* exactly number_of_timesteps times: the counter ends at
\* T + number_of_timesteps
\* ------------------------------------------------------------------------
StartCounter == IF driver.init_type = "Resume" THEN snap.timestep ELSE 0

RunSucceeded == driver.pc \in {"returned", "exited"} /\ driver.result = Some("Ok")

C26_StepCount ==
    RunSucceeded => timestep[1] = StartCounter + driver.cfg.number_of_timesteps
\* ------------------------------------------------------------------------
\* C27: in every iteration, after do_timestep has returned, the timestep
\* label of the loop (used for the cadences and stored in the entry) equals
\* the timestep counter of the simulation, in fresh and in resumed runs; the
\* labels of successively appended entries strictly increase
\* ------------------------------------------------------------------------
C27_LabelIsCounter ==
    /\ driver.pc \in {"append", "snapshot"} => driver.timestep = get_timestep(1)
    /\ driver.pc = "append" => driver.entry.v.timestep = get_timestep(1)
    /\ \A i \in 1..Len(out.entries) : \A j \in 1..Len(out.entries) :
          i < j => out.entries[i].timestep < out.entries[j].timestep

C27_Witness ==
    /\ driver.init_type = "Resume"
    /\ driver.pc = "snapshot"
    /\ snap.timestep >= 1
    /\ driver.timestep = snap.timestep + 1
    /\ Len(out.entries) = 2
\* ------------------------------------------------------------------------
\* C28: after Simulation::new with two or more workers the generator states
\* of different workers are pairwise different, so within a step two
\* different chunks of the sample buffer are never filled with the same
\* sequence of random values
\* ------------------------------------------------------------------------
ChunkValues(s, k) ==
    [n \in 0..(Cardinality(Chunk(s, k)) - 1) |-> random_samples[s][k * chunksize(s) + n]]

C28_GeneratorsDiffer ==
    \A s \in Sims :
        /\ pc[s] = "new" =>
              \A g \in DOMAIN rng[s] : \A h \in DOMAIN rng[s] :
                  g # h => rng[s][g] # rng[s][h]
        /\ (DrawComplete(s) /\ pc[s] # "panic") =>
              \A k1 \in Pairs(s) : \A k2 \in Pairs(s) :
                  (k1 < k2 /\ Cardinality(Chunk(s, k2)) >= 1) =>
                      \E n \in DOMAIN ChunkValues(s, k2) :
                          ChunkValues(s, k1)[n] # ChunkValues(s, k2)[n]
\* ------------------------------------------------------------------------
\* C29: on every path by which run_simulation returns (normal completion,
\* failed append of the initial condition, failed append in the loop, failed
\* snapshot write) the worker has been shut down by exactly one call of quit
\* or emergency_join; on normal completion quit is the last call on the worker
\* ------------------------------------------------------------------------
RunSimulationReturned == driver.pc \in {"returned", "exited"} /\ out.state # "none"

C29_WorkerShutDown ==
    RunSimulationReturned =>
        /\ out.quits + out.emergency_joins = 1
        /\ driver.result = Some("Ok") => out.quits = 1 /\ out.state = "quit"
\* ------------------------------------------------------------------------
\* C30 as stated: whenever the simulation is idle (after init or resume and
\* after each do_timestep) its distribution is the renormalized sample of the
\* particles it holds at that moment
\* ------------------------------------------------------------------------
SampleOf(ps) == scale_dist(sample_from(FreshDistribution, ps), box_volume(sim.box_size))

C30_Original ==
    \A s \in Sims : pc[s] = "idle" => distribution[s] = SampleOf(particles[s])

\* C30: after init or resume the distribution is the renormalized sample of
\* the particles held; after a do_timestep it is the renormalized sample of
\* the particles as they were before the update of that step, while
\* get_particles returns the updated ones
NotYetStepped(s) == pc[s] = "idle" /\ phases[s] = <<>>

C30_DistributionLags ==
    /\ [](\A s \in Sims : NotYetStepped(s) => distribution[s] = SampleOf(particles[s]))
    /\ [][\A s \in Sims : UpdateStep(s) =>
              /\ distribution'[s] = SampleOf(particles[s])
              /\ particles'[s] = updated_particles(s)]_vars

C30_Witness ==
    \E s \in Sims :
        /\ StepCompleted(s)
        /\ particles[s] # sanitize(input, sim.box_size)
        /\ distribution[s] = SampleOf(sanitize(input, sim.box_size))
        /\ distribution[s] # SampleOf(particles[s])
        /\ timestep[s] = 1
        /\ origin[s] = "init"
====
